---------------------------- MODULE Spec2Model ----------------------------
(***************************************************************************)
(* A model of NN/Basic/Layers.py: the layer abstraction (Layer, SubLayer), *)
(* the shape validation of ConvLayer / ConvPoolLayer, the Dropout,         *)
(* Normalize and CostLayer sub-layers, MaxPool, and LayerFactory.          *)
(*                                                                         *)
(* Python's None is the empty tuple <<>> for optional numbers (Some(v) is  *)
(* <<v>>) and the node id 0 for optional node references.  Floating-point  *)
(* numbers are exact rationals <<numerator, denominator>>.                 *)
(***************************************************************************)
EXTENDS Integers, Sequences, FiniteSets, TLC

VARIABLES
    layer,        \* the ConvLayer / ConvPoolLayer object last constructed or fed
    nodes,        \* the Layer / SubLayer objects built so far, by id 1..Len(nodes)
    ret,          \* outcome of the last construction or factory call on the chain
    bpres,        \* outcome of the last bp / bp_first / root-setter call
    batch_range,  \* the class attribute CostLayer._batch_range
    norm,         \* the Normalize object
    cost,         \* the CostLayer object
    pool          \* the MaxPool object

vars == <<layer, nodes, ret, bpres, batch_range, norm, cost, pool>>

(***************************************************************************)
(* Bounds of the model.                                                    *)
(***************************************************************************)
MaxSide == 3      \* input height / width of a convolutional layer: 1..MaxSide
MaxKernel == 3    \* kernel / pool window height and width: 1..MaxKernel
MaxStride == 3    \* stride: 1..MaxStride
MaxPadding == 1   \* padding: 0..MaxPadding
MaxFilters == 1   \* number of filters: 1..MaxFilters

None == <<>>
Some(v) == <<v>>

(***************************************************************************)
(* Exact rational arithmetic standing for Python's float arithmetic.       *)
(***************************************************************************)
Abs(a) == IF a < 0 THEN -a ELSE a

RECURSIVE GCD(_, _)
GCD(a, b) == IF b = 0 THEN a ELSE GCD(b, a % b)

\* the rational n/d in lowest terms with a positive denominator (d # 0)
Rat(n, d) ==
    LET g == GCD(Abs(n), Abs(d))
        s == IF d < 0 THEN -1 ELSE 1
    IN  <<(s * n) \div g, (s * d) \div g>>

R(n) == <<n, 1>>
RAdd(a, b) == Rat(a[1] * b[2] + b[1] * a[2], a[2] * b[2])
RNeg(a) == <<-a[1], a[2]>>
RSub(a, b) == RAdd(a, RNeg(b))
RMul(a, b) == Rat(a[1] * b[1], a[2] * b[2])
RDiv(a, b) == Rat(a[1] * b[2], a[2] * b[1])
RLt(a, b) == a[1] * b[2] < b[1] * a[2]
RLe(a, b) == a[1] * b[2] <= b[1] * a[2]

\* Python's int(a / b) for integers a and b > 0: true division, then
\* truncation toward zero
IntOfQuotient(a, b) == IF a >= 0 THEN a \div b ELSE -((-a) \div b)

(***************************************************************************)
(* ConvLayer and ConvPoolLayer: shape validation and output size.          *)
(* A shape is <<>> (len(shape) == 1 in the source: no weight shape yet),   *)
(* <<<<c, h, w>>, <<f, kh, kw>>>> for a ConvLayer, or                      *)
(* <<<<c, h, w>>, <<ph, pw>>>> for a ConvPoolLayer.                        *)
(***************************************************************************)
NoLayer ==
    [cls |-> "none", shape |-> <<>>, stride |-> 1, padding |-> 0,
     n_channels |-> None, n_filters |-> None, out_h |-> None, out_w |-> None,
     built |-> FALSE, err |-> "none"]

\* the kernel (or pool window) height and width held in shape[1]
FilterHeight(cls, shape) == IF cls = "ConvLayer" THEN shape[2][2] ELSE shape[2][1]
FilterWidth(cls, shape) == IF cls = "ConvLayer" THEN shape[2][3] ELSE shape[2][2]

\* the test of feed_shape, lines 180-184 and 236-240
ShapeRejected(height, width, filter_height, filter_width, stride, padding) ==
    LET full_height == width + 2 * padding
        full_width == height + 2 * padding
    IN  \/ (full_height - filter_height) % stride # 0
        \/ (full_width - filter_width) % stride # 0

\* the padding term of the output size: ConvLayer adds it, ConvPoolLayer does not
OutPadding(cls, padding) == IF cls = "ConvLayer" THEN padding ELSE 0

\* feed_shape on object o: the fields assigned before the test are kept when
\* it raises, out_h and out_w are assigned only when it passes
feed_shape(o, shape) ==
    LET height == shape[1][2]
        width == shape[1][3]
        filter_height == FilterHeight(o.cls, shape)
        filter_width == FilterWidth(o.cls, shape)
        p == OutPadding(o.cls, o.padding)
        fed == [o EXCEPT !.shape = shape,
                         !.n_channels = Some(shape[1][1]),
                         !.n_filters = Some(IF o.cls = "ConvLayer" THEN shape[2][1]
                                            ELSE shape[1][1])]
    IN  IF ShapeRejected(height, width, filter_height, filter_width,
                         o.stride, o.padding)
        THEN [fed EXCEPT !.err = "BuildLayerError"]
        ELSE [fed EXCEPT
                !.out_h = Some(IntOfQuotient(height + 2 * p - filter_height, o.stride) + 1),
                !.out_w = Some(IntOfQuotient(width + 2 * p - filter_width, o.stride) + 1),
                !.err = "none"]

\* ConvLayer.__init__ / ConvPoolLayer.__init__: the object exists (built)
\* unless feed_shape raised inside the constructor
ConvInit(cls, shape, stride, padding) ==
    LET o == [NoLayer EXCEPT !.cls = cls, !.shape = shape,
                             !.stride = stride, !.padding = padding]
        fed == feed_shape(o, shape)
    IN  IF shape = <<>> THEN [o EXCEPT !.built = TRUE]
        ELSE [fed EXCEPT !.built = (fed.err = "none")]

ConvClasses == {"ConvLayer", "ConvPoolLayer"}

ConvShapes ==
    { <<<<1, h, w>>, <<f, kh, kw>>>> :
        h \in 1..MaxSide, w \in 1..MaxSide, f \in 1..MaxFilters,
        kh \in 1..MaxKernel, kw \in 1..MaxKernel }

PoolShapes ==
    { <<<<1, h, w>>, <<ph, pw>>>> :
        h \in 1..MaxSide, w \in 1..MaxSide,
        ph \in 1..MaxKernel, pw \in 1..MaxKernel }

ShapesOf(cls) == IF cls = "ConvLayer" THEN ConvShapes ELSE PoolShapes

OtherShapeVars == <<nodes, ret, bpres, batch_range, norm, cost, pool>>

\* a layer is constructed, with or without a weight shape
Construct ==
    \E cls \in ConvClasses, stride \in 1..MaxStride, padding \in 0..MaxPadding :
        \E shape \in ShapesOf(cls) \cup {<<>>} :
            /\ layer' = ConvInit(cls, shape, stride, padding)
            /\ UNCHANGED OtherShapeVars

\* feed_shape is called on a layer that exists (its constructor did not raise)
FeedShape ==
    /\ layer.built
    /\ \E shape \in ShapesOf(layer.cls) :
            layer' = feed_shape(layer, shape)
    /\ UNCHANGED OtherShapeVars


(***************************************************************************)
(* Layer and SubLayer objects.  A node is referred to by its id, its index *)
(* in nodes; the id 0 is None.  A node whose constructor raised after      *)
(* SubLayer.__init__ had linked it stays in nodes with built = FALSE: the  *)
(* caller holds no reference to it, its parent does.                       *)
(***************************************************************************)
MaxNodes == 3     \* at most MaxNodes objects are constructed

\* the fields Layer.__init__ sets (lines 23-30), and the fields subclasses add
BlankNode(cls, shape) ==
    [cls |-> cls, shape |-> shape, parent |-> 0, child |-> 0, _root |-> 0,
     prob |-> None, prob_inv |-> None, cost_name |-> "", cost_function |-> "",
     conv |-> None, built |-> TRUE]

\* Layer.__init__ of a new root object
LayerInit(ns, cls, shape) == Append(ns, BlankNode(cls, shape))

\* a SubLayer.__init__ that leaves a child the parent already has
SubLayerInit_KeepsChild(ns, cls, parent, shape) ==
    Append([ns EXCEPT ![parent].child =
                IF ns[parent].child = 0 THEN Len(ns) + 1 ELSE ns[parent].child],
           [BlankNode(cls, shape) EXCEPT !.parent = parent])

\* SubLayer.__init__: the new object gets the parent, the parent gets the
\* new object as child whatever child it had, _root is None
SubLayerInit(ns, cls, parent, shape) ==
    Append([ns EXCEPT ![parent].child = Len(ns) + 1],
           [BlankNode(cls, shape) EXCEPT !.parent = parent])

\* the outcome of a constructor or factory call: the objects, the object
\* returned (0 when it raised), the error raised, and the pair the factory
\* returns with the object
Built(ns) == [nodes |-> ns, node |-> Len(ns), err |-> "none", pair |-> None]
Raised(ns, err) == [nodes |-> ns, node |-> 0, err |-> err, pair |-> None]

\* a test that also rejects the probability 0
ProbRejected_Zero(prob) == RLe(prob, R(0)) \/ RLe(R(1), prob)

\* the test of Dropout.__init__, line 574
ProbRejected(prob) == RLt(prob, R(0)) \/ RLe(R(1), prob)

\* Dropout.__init__
DropoutInit(ns, cls, parent, shape, prob) ==
    IF ProbRejected(prob) THEN Raised(ns, "BuildLayerError")
    ELSE LET linked == SubLayerInit(ns, cls, parent, shape)
         IN  Built([linked EXCEPT
                ![Len(linked)].prob = Some(prob),
                ![Len(linked)].prob_inv = Some(RDiv(R(1), RSub(R(1), prob)))])

\* Normalize.__init__ (its statistics are modelled by norm)
NormalizeInit(ns, cls, parent, shape) == Built(SubLayerInit(ns, cls, parent, shape))

\* CostLayer._available_cost_functions, lines 689-694
AvailableCostFunctions ==
    [n \in {"MSE", "SVM", "Cross Entropy", "Log Likelihood"} |->
        CASE n = "MSE" -> "_mse"
          [] n = "SVM" -> "_svm"
          [] n = "Cross Entropy" -> "_cross_entropy"
          [] n = "Log Likelihood" -> "_log_likelihood"]

\* CostLayer.__init__: the name is tested after SubLayer.__init__ has run
CostLayerInit(ns, parent, shape, cost_function) ==
    LET linked == SubLayerInit(ns, "CostLayer", parent, shape)
        id == Len(linked)
    IN  IF cost_function \notin DOMAIN AvailableCostFunctions
        THEN Raised([linked EXCEPT ![id].built = FALSE], "LayerError")
        ELSE Built([linked EXCEPT
                ![id].cost_name = cost_function,
                ![id].cost_function = AvailableCostFunctions[cost_function]])

\* a convolutional root (ConvMeta.__init__ -> ConvLayer.__init__, or
\* MaxPool -> ConvPoolLayer.__init__)
ConvRootInit(ns, cls, shape, stride, padding) ==
    LET o == ConvInit(IF cls = "MaxPool" THEN "ConvPoolLayer" ELSE "ConvLayer",
                      shape, stride, padding)
    IN  IF o.err # "none" THEN Raised(ns, o.err)
        ELSE Built(Append(ns, [BlankNode(cls, shape) EXCEPT !.conv = Some(o)]))

\* ConvSubMeta.__init__ of ConvDrop / ConvNorm: ConvLayer.__init__ on the
\* parent's shape, stride and padding, then the sub-layer's __init__.
\* args is <<>> (ConvNorm) or <<prob>> (ConvDrop).
ConvSubInit(ns, cls, parent, shape, args) ==
    LET p == ns[parent]
    IN  IF p.conv = None THEN Raised(ns, "AttributeError")      \* no parent.stride
        ELSE IF p.cls = "MaxPool" THEN Raised(ns, "ValueError") \* shape[1] has 2 items
        ELSE IF p.parent # 0 THEN Raised(ns, "TypeError")       \* shape[1] is a width
        ELSE LET r == IF cls = "ConvDrop"
                      THEN DropoutInit(ns, cls, parent, shape, args[1])
                      ELSE NormalizeInit(ns, cls, parent, shape)
             IN  IF r.err # "none" THEN r
                 ELSE Built([r.nodes EXCEPT ![r.node].conv = p.conv])

(***************************************************************************)
(* LayerFactory.                                                           *)
(***************************************************************************)
PlainRootLayers == {"Tanh", "Sigmoid", "ELU", "ReLU", "Softplus", "Softmax", "Identical"}
ConvRootLayers ==
    {"ConvTanh", "ConvSigmoid", "ConvELU", "ConvReLU", "ConvSoftplus",
     "ConvSoftmax", "ConvIdentical", "MaxPool"}
available_root_layers == PlainRootLayers \cup ConvRootLayers
available_cost_functions == {"MSE", "SVM", "Cross Entropy", "Log Likelihood"}
available_special_layers == {"Dropout", "Normalize", "ConvDrop", "ConvNorm"}
available_sub_layers == available_special_layers \cup available_cost_functions

\* special_layer_default_params, lines 811-816: the Dropout / ConvDrop
\* probability 0.5; the Normalize parameters do not enter the model
special_layer_default_params(name) ==
    IF name \in {"Dropout", "ConvDrop"} THEN <<Rat(1, 2)>> ELSE <<>>

\* handle_str_main_layers: a root layer built from args, None (node 0 and no
\* error) for a sub-layer name, BuildNetworkError for an unknown name
handle_str_main_layers(ns, name, args) ==
    IF name \notin available_sub_layers
    THEN IF name \in PlainRootLayers THEN Built(LayerInit(ns, name, args[1]))
         ELSE IF name \in ConvRootLayers
              THEN ConvRootInit(ns, name, args[1], args[2], args[3])
              ELSE Raised(ns, "BuildNetworkError")
    ELSE Raised(ns, "none")

\* the second component get_layer_by_name returns with a root layer
RootPair == None

\* the pair taken from the parent's input width
SubPair_ParentInput(ns, parent, current_dimension) ==
    <<ns[parent].shape[1], current_dimension>>

\* (_current, _next) of get_layer_by_name, line 831
SubPair(ns, parent, current_dimension) == <<ns[parent].shape[2], current_dimension>>

\* get_layer_by_name: the objects after the call, the object returned, the
\* pair returned and the error raised
get_layer_by_name(ns, name, parent, current_dimension, args) ==
    LET main == handle_str_main_layers(ns, name, args)
        shape == SubPair(ns, parent, current_dimension)
        params == IF args # <<>> THEN args ELSE special_layer_default_params(name)
        sub == IF name \in available_cost_functions
               THEN CostLayerInit(ns, parent, shape, name)
               ELSE IF name = "Dropout"
               THEN DropoutInit(ns, name, parent, shape, params[1])
               ELSE IF name = "Normalize"
               THEN NormalizeInit(ns, name, parent, shape)
               ELSE ConvSubInit(ns, name, parent, shape, params)
    IN  IF main.node # 0 THEN [main EXCEPT !.pair = RootPair]
        ELSE IF main.err # "none" THEN main
        ELSE IF sub.err # "none" THEN sub
        ELSE [sub EXCEPT !.pair = Some(shape)]

(***************************************************************************)
(* Operations on the chain.                                                *)
(***************************************************************************)
\* objects the caller holds a reference to
Refs == { n \in 1..Len(nodes) : nodes[n].built }

\* the width given to the next object: a value no earlier object uses
NextWidth == Len(nodes) + 2

\* drop probabilities tried: -1/2, 0, 1/4, 1, 3/2
Probs == {Rat(-1, 2), R(0), Rat(1, 4), R(1), Rat(3, 2)}

\* constructor arguments tried for a convolutional root: shape, stride,
\* padding; the second of each pair is rejected by feed_shape
ConvArgs(name) ==
    IF name = "MaxPool"
    THEN {<<<<<<1, 2, 2>>, <<2, 2>>>>, 2, 0>>, <<<<<<1, 3, 3>>, <<2, 2>>>>, 2, 0>>}
    ELSE {<<<<<<1, 3, 3>>, <<2, 2, 2>>>>, 1, 0>>, <<<<<<1, 3, 3>>, <<2, 2, 2>>>>, 2, 0>>}

FactoryNames == available_root_layers \cup available_sub_layers \cup {"Linear"}

FactoryArgs(name) ==
    IF name \in PlainRootLayers THEN {<<<<NextWidth - 1, NextWidth>>>>}
    ELSE IF name \in ConvRootLayers THEN ConvArgs(name)
    ELSE IF name \in {"Dropout", "ConvDrop"} THEN {<<>>, <<Rat(1, 4)>>, <<R(1)>>}
    ELSE {<<>>}

FactoryParents(name) == IF name \in available_sub_layers THEN Refs ELSE {0}

\* one chain is built: its root first, then sub-layers on the objects built
FactoryCallable(name) == (name \in available_sub_layers) = (nodes # <<>>)

OtherChainVars == <<layer, bpres, batch_range, norm, cost, pool>>

Outcome(op, name, parent, args, r) ==
    [op |-> op, name |-> name, parent |-> parent, args |-> args,
     current_dimension |-> NextWidth, node |-> r.node, pair |-> r.pair, err |-> r.err]

\* LayerFactory().get_layer_by_name(name, parent, current_dimension, *args)
GetLayerByName ==
    /\ Len(nodes) < MaxNodes
    /\ \E name \in { n \in FactoryNames : FactoryCallable(n) } :
        \E parent \in FactoryParents(name), args \in FactoryArgs(name) :
            LET r == get_layer_by_name(nodes, name, parent, NextWidth, args)
            IN  /\ nodes' = r.nodes
                /\ ret' = Outcome("get_layer_by_name", name, parent, args, r)
    /\ UNCHANGED OtherChainVars

\* a root layer constructed directly: cls(shape)
NewLayer ==
    /\ nodes = <<>>
    /\ \E cls \in PlainRootLayers :
        LET shape == <<NextWidth - 1, NextWidth>>
            r == Built(LayerInit(nodes, cls, shape))
        IN  /\ nodes' = r.nodes
            /\ ret' = Outcome("Layer", cls, 0, <<shape>>, r)
    /\ UNCHANGED OtherChainVars

\* Dropout(parent, shape, prob) with prob among probs
DropoutCall(probs) ==
    /\ Len(nodes) < MaxNodes
    /\ \E parent \in Refs, prob \in probs :
        LET r == DropoutInit(nodes, "Dropout", parent,
                             SubPair(nodes, parent, NextWidth), prob)
        IN  /\ nodes' = r.nodes
            /\ ret' = Outcome("Dropout", "Dropout", parent, <<prob>>, r)

NewDropout == DropoutCall(Probs) /\ UNCHANGED OtherChainVars

\* cost function names tried: the four known names and an unknown one
CostNames == available_cost_functions \cup {"Hinge"}

\* CostLayer(parent, shape, cost_function) with cost_function among names
CostLayerCall(names) ==
    /\ Len(nodes) < MaxNodes
    /\ \E parent \in Refs, cost_function \in names :
        LET r == CostLayerInit(nodes, parent,
                               SubPair(nodes, parent, NextWidth), cost_function)
        IN  /\ nodes' = r.nodes
            /\ ret' = Outcome("CostLayer", cost_function, parent, <<>>, r)

NewCostLayer == CostLayerCall(CostNames) /\ UNCHANGED OtherChainVars

(***************************************************************************)
(* Arrays: a two-dimensional array is a sequence of rows of rationals.     *)
(* A result is [err, val]: the exception raised ("none" when the call      *)
(* returned) and the value returned.                                       *)
(***************************************************************************)
Ok(v) == [err |-> "none", val |-> v]
Err(e) == [err |-> e, val |-> <<>>]

RECURSIVE RSum(_)
RSum(seq) == IF seq = <<>> THEN R(0) ELSE RAdd(seq[1], RSum(Tail(seq)))

\* a.dot(w.T): a is n x m, w is d x m, the result n x d
DotT(a, w) ==
    [i \in 1..Len(a) |->
        [j \in 1..Len(w) |-> RSum([k \in 1..Len(w[j]) |-> RMul(a[i][k], w[j][k])])]]

\* elementwise a * b, a + b, a - b, a / b of arrays of one shape
Times(a, b) == [i \in 1..Len(a) |-> [j \in 1..Len(a[i]) |-> RMul(a[i][j], b[i][j])]]
Plus(a, b) == [i \in 1..Len(a) |-> [j \in 1..Len(a[i]) |-> RAdd(a[i][j], b[i][j])]]
Minus(a, b) == [i \in 1..Len(a) |-> [j \in 1..Len(a[i]) |-> RSub(a[i][j], b[i][j])]]
Over(a, b) == [i \in 1..Len(a) |-> [j \in 1..Len(a[i]) |-> RDiv(a[i][j], b[i][j])]]

\* c * a, c - a and -a for a scalar c
Scale(c, a) == [i \in 1..Len(a) |-> [j \in 1..Len(a[i]) |-> RMul(c, a[i][j])]]
From(c, a) == [i \in 1..Len(a) |-> [j \in 1..Len(a[i]) |-> RSub(c, a[i][j])]]
Negate(a) == Scale(R(-1), a)

\* np.argmax of a row: the first index (from 1) of its maximum
ArgMax(row) ==
    CHOOSE j \in 1..Len(row) :
        /\ \A k \in 1..Len(row) : RLe(row[k], row[j])
        /\ \A k \in 1..(j - 1) : RLt(row[k], row[j])

(***************************************************************************)
(* The activations' _derivative, in terms of the forward output y.         *)
(* Softplus (exp and log) has no exact rational value and is not           *)
(* evaluated.  A scalar or boolean result is the array it broadcasts to.   *)
(***************************************************************************)
SubLayerClasses == {"Dropout", "Normalize", "ConvDrop", "ConvNorm", "CostLayer"}
IsSubLayer(node) == node.cls \in SubLayerClasses

\* self._derivative(y, delta) of node n; delta = None is <<>>
Derivative(ns, n, y, delta) ==
    LET cls == ns[n].cls
        one == R(1)
    IN  CASE cls = "Tanh" -> Ok(From(one, Times(y, y)))
          [] cls \in {"Sigmoid", "Softmax"} -> Ok(Times(y, From(one, y)))
          [] cls = "ELU" ->
                Ok([i \in 1..Len(y) |-> [j \in 1..Len(y[i]) |->
                    IF RLt(y[i][j], R(0)) THEN RAdd(y[i][j], one) ELSE one]])
          [] cls = "ReLU" ->
                Ok([i \in 1..Len(y) |-> [j \in 1..Len(y[i]) |->
                    IF RLt(R(0), y[i][j]) THEN one ELSE R(0)]])
          [] cls = "Identical" -> Ok([i \in 1..Len(y) |-> [j \in 1..Len(y[i]) |-> one]])
          [] cls = "Dropout" ->
                IF delta = <<>> THEN Err("TypeError")     \* float * None
                ELSE Ok(Scale(ns[n].prob_inv[1], delta))
          [] cls = "CostLayer" -> Err("LayerError")
          [] OTHER -> Err("NotImplementedError")

\* self._root.derivative(y): _root is None until the root setter stores one
RootDerivative(ns, n, y) ==
    IF ns[n]._root = 0 THEN Err("AttributeError")
    ELSE Derivative(ns, ns[n]._root, y, <<>>)

\* Layer.bp(y, w, prev_delta) of node n
bp(ns, n, y, w, prev_delta) ==
    IF ns[n].child # 0 /\ IsSubLayer(ns[ns[n].child])
    THEN IF ~IsSubLayer(ns[n]) THEN Ok(prev_delta)
         ELSE Derivative(ns, n, y, prev_delta)
    ELSE IF IsSubLayer(ns[n])
    THEN LET rd == RootDerivative(ns, n, y)
         IN  IF rd.err # "none" THEN rd
             ELSE Derivative(ns, n, y, Times(DotT(prev_delta, w), rd.val))
    ELSE Ok(Times(DotT(prev_delta, w), Derivative(ns, n, y, <<>>).val))

\* SubLayer.root (getter): the ancestor that has no parent
RECURSIVE root(_, _)
root(ns, n) == IF ns[n].parent = 0 THEN n ELSE root(ns, ns[n].parent)

(***************************************************************************)
(* The cost functions' gradients (diff=True).  y and y_pred are arrays of  *)
(* one shape, a row per sample.                                            *)
(***************************************************************************)
_mse(y, y_pred) == Plus(Negate(y), y_pred)

_cross_entropy(y, y_pred) ==
    Plus(Over(Negate(y), y_pred), Over(From(R(1), y), From(R(1), y_pred)))

_svm(y, y_pred) ==
    LET n == Len(y_pred)
        cls(i) == ArgMax(y[i])
        margin(i, j) ==
            LET m == RAdd(RSub(y_pred[i][j], y_pred[i][cls(i)]), R(1))
            IN  IF j = cls(i) \/ RLt(m, R(0)) THEN R(0) ELSE m
        num_pos(i) == Cardinality({ j \in 1..Len(y_pred[i]) : RLt(R(0), margin(i, j)) })
        dx(i, j) ==
            RSub(IF RLt(R(0), margin(i, j)) THEN R(1) ELSE R(0),
                 IF j = cls(i) THEN R(num_pos(i)) ELSE R(0))
    IN  [i \in 1..n |-> [j \in 1..Len(y_pred[i]) |-> RDiv(dx(i, j), R(n))]]

\* np.arange(n) as the tuple <<0, ..., n-1>>
ARange(n) == [i \in 1..n |-> i - 1]

\* the positions (row, column), from 0, that y_pred[rows, cols] addresses:
\* the two index arrays are broadcast against each other
IndexPairs(rows, cols) ==
    IF Len(rows) = Len(cols) THEN { <<rows[i], cols[i]>> : i \in 1..Len(rows) }
    ELSE IF Len(rows) = 1 THEN { <<rows[1], cols[i]>> : i \in 1..Len(cols) }
    ELSE { <<rows[i], cols[1]>> : i \in 1..Len(rows) }

\* CostLayer._log_likelihood(y, y_pred) with the class attribute
\* _batch_range = br: the result and the attribute after the call
_log_likelihood(br, y, y_pred) ==
    LET range == IF br = None THEN ARange(Len(y_pred)) ELSE br
        y_arg_max == [i \in 1..Len(y) |-> ArgMax(y[i]) - 1]
        hit == IndexPairs(range, y_arg_max)
        broadcastable == Len(range) = Len(y_arg_max) \/ Len(range) = 1 \/ Len(y_arg_max) = 1
        in_bounds == \A q \in hit : q[1] < Len(y_pred)
    IN  IF ~(broadcastable /\ in_bounds)
        THEN [err |-> "IndexError", val |-> <<>>, batch_range |-> range]
        ELSE [err |-> "none",
              val |-> [i \in 1..Len(y_pred) |-> [j \in 1..Len(y_pred[i]) |->
                        IF <<i - 1, j - 1>> \in hit THEN RSub(y_pred[i][j], R(1))
                        ELSE y_pred[i][j]]],
              batch_range |-> range]

\* a function handed to set_cost_function_derivative by the caller: the
\* derivative 2 * (y_pred - y) of the summed squared error
CustomDerivative == "squared_error_derivative"

\* self._cost_function(y, y_pred) for the function called fn
CostGradient(fn, br, y, y_pred) ==
    CASE fn = "_mse" -> [err |-> "none", val |-> _mse(y, y_pred), batch_range |-> br]
      [] fn = "_svm" -> [err |-> "none", val |-> _svm(y, y_pred), batch_range |-> br]
      [] fn = "_cross_entropy" ->
            [err |-> "none", val |-> _cross_entropy(y, y_pred), batch_range |-> br]
      [] fn = "_log_likelihood" -> _log_likelihood(br, y, y_pred)
      [] fn = CustomDerivative ->
            [err |-> "none", val |-> Scale(R(2), _mse(y, y_pred)), batch_range |-> br]

\* str(node): the class name, for a CostLayer the name of its cost function
Name(node) == IF node.cls = "CostLayer" THEN node.cost_name ELSE node.cls

\* CostLayer.bp_first(y, y_pred) of node n
bp_first(ns, n, br, y, y_pred) ==
    LET self == ns[n]
        g == CostGradient(self.cost_function, br, y, y_pred)
        rd == RootDerivative(ns, n, y_pred)
    IN  IF self._root = 0 \/ self.cost_name = ""
        THEN [err |-> "AttributeError", val |-> <<>>, batch_range |-> br]
        ELSE IF Name(ns[self._root]) = "Sigmoid" /\ self.cost_name = "Cross Entropy"
        THEN [err |-> "none", batch_range |-> br,
              val |-> Minus(Times(y, From(R(1), y_pred)), Times(From(R(1), y), y_pred))]
        ELSE IF self.cost_name = "Log Likelihood"
        THEN IF g.err # "none" THEN g
             ELSE [g EXCEPT !.val = Scale(Rat(1, 4), Negate(g.val))]
        ELSE IF g.err # "none" THEN g
        ELSE IF rd.err # "none" THEN [g EXCEPT !.err = rd.err, !.val = <<>>]
        ELSE [g EXCEPT !.val = Times(Negate(g.val), rd.val)]

(***************************************************************************)
(* Backward calls on the chain.                                            *)
(***************************************************************************)
\* arguments tried for bp: y is 1 x 2, w is 2 x 1, prev_delta is 1 x 1
BpY == { <<<<R(0), Rat(1, 2)>>>>, <<<<R(2), R(-1)>>>> }
BpW == { <<<<R(-1)>>, <<Rat(1, 2)>>>> }
BpDelta == { <<<<R(1)>>>>, <<<<R(-2)>>>> }

\* arguments tried for bp_first: one-hot targets and predictions in (0, 1),
\* for batches of one and of two samples
OneHotRows == { <<R(1), R(0)>>, <<R(0), R(1)>> }
PredRows == { <<Rat(1, 4), Rat(3, 4)>>, <<Rat(1, 2), Rat(1, 2)>> }
Batches(rows) ==
    { <<r>> : r \in rows } \cup { b \in { <<r, q>> : r \in rows, q \in rows } : b[1] # b[2] }
CostInputs ==
    { <<y, y_pred>> \in Batches(OneHotRows) \X Batches(PredRows) : Len(y) = Len(y_pred) }

\* classes whose derivative the model evaluates exactly
ExactRootLayers == PlainRootLayers \ {"Softplus"}

NoCall ==
    [op |-> "none", node |-> 0, y |-> <<>>, w |-> <<>>, prev_delta |-> <<>>,
     err |-> "none", val |-> <<>>]

OtherBpVars == <<layer, norm, cost, pool>>

\* a root layer of the chain is constructed
NewExactLayer ==
    /\ nodes = <<>>
    /\ \E cls \in ExactRootLayers :
        LET shape == <<NextWidth - 1, NextWidth>>
            r == Built(LayerInit(nodes, cls, shape))
        IN  /\ nodes' = r.nodes
            /\ ret' = Outcome("Layer", cls, 0, <<shape>>, r)
    /\ bpres' = NoCall
    /\ UNCHANGED batch_range
    /\ UNCHANGED OtherBpVars

\* a Dropout is constructed on an object of the chain
NewExactDropout ==
    /\ DropoutCall({Rat(1, 4)})
    /\ bpres' = NoCall
    /\ UNCHANGED batch_range
    /\ UNCHANGED OtherBpVars

\* a CostLayer is constructed on an object of the chain
NewKnownCostLayer ==
    /\ CostLayerCall(available_cost_functions)
    /\ bpres' = NoCall
    /\ UNCHANGED batch_range
    /\ UNCHANGED OtherBpVars

\* values given to the root setter: the ancestor without parent, or the parent
RootValues(n) == {root(nodes, n), IF nodes[n].parent = 0 THEN n ELSE nodes[n].parent}

\* node.root = value: stored in _root by a sub-layer, refused by a root layer
SetRoot ==
    /\ \E n \in Refs : \E value \in RootValues(n) :
        IF IsSubLayer(nodes[n])
        THEN /\ nodes' = [nodes EXCEPT ![n]._root = value]
             /\ bpres' = [NoCall EXCEPT !.op = "root.setter", !.node = n]
        ELSE /\ nodes' = nodes
             /\ bpres' = [NoCall EXCEPT !.op = "root.setter", !.node = n,
                                        !.err = "BuildLayerError"]
    /\ UNCHANGED <<ret, batch_range>>
    /\ UNCHANGED OtherBpVars

\* node.bp(y, w, prev_delta)
Bp ==
    /\ \E n \in Refs, y \in BpY, w \in BpW, prev_delta \in BpDelta :
        LET r == bp(nodes, n, y, w, prev_delta)
        IN  bpres' = [op |-> "bp", node |-> n, y |-> y, w |-> w,
                      prev_delta |-> prev_delta, err |-> r.err, val |-> r.val]
    /\ UNCHANGED <<nodes, ret, batch_range>>
    /\ UNCHANGED OtherBpVars

\* cost_layer.bp_first(y, y_pred); y_pred is recorded in the field w
BpFirst ==
    /\ \E n \in { m \in Refs : nodes[m].cls = "CostLayer" }, in \in CostInputs :
        LET r == bp_first(nodes, n, batch_range, in[1], in[2])
        IN  /\ bpres' = [op |-> "bp_first", node |-> n, y |-> in[1], w |-> in[2],
                         prev_delta |-> <<>>, err |-> r.err, val |-> r.val]
            /\ batch_range' = r.batch_range
    /\ UNCHANGED <<nodes, ret>>
    /\ UNCHANGED OtherBpVars

(***************************************************************************)
(* Normalize: the running statistics.  A vector is [ndim, v]: v its values *)
(* and ndim 1 for shape (d,), 2 for shape (1, d) (keepdims=True).  The     *)
(* output of _activate needs a square root and is not evaluated: only the  *)
(* statistics the call stores are.                                         *)
(***************************************************************************)
MaxTrain == 2        \* at most MaxTrain training-mode forward calls per object
NormFeatures == 2    \* shape[1] of the Normalize objects: the feature count

Vec(ndim, v) == [ndim |-> ndim, v |-> v]
Zeros(d) == Vec(1, [j \in 1..d |-> R(0)])

\* np.mean(x, axis=0, keepdims=True) and np.var(x, axis=0, keepdims=True)
Mean(x) ==
    Vec(2, [j \in 1..Len(x[1]) |->
        RDiv(RSum([i \in 1..Len(x) |-> x[i][j]]), R(Len(x)))])
Var(x) ==
    Vec(2, [j \in 1..Len(x[1]) |->
        LET mu == Mean(x).v[j]
        IN  RDiv(RSum([i \in 1..Len(x) |->
                    RMul(RSub(x[i][j], mu), RSub(x[i][j], mu))]), R(Len(x)))])

\* momentum * running + (1 - momentum) * sample, broadcast
Smooth(momentum, running, sample) ==
    Vec(IF running.ndim > sample.ndim THEN running.ndim ELSE sample.ndim,
        [j \in 1..Len(sample.v) |->
            RAdd(RMul(momentum, running.v[j]),
                 RMul(RSub(R(1), momentum), sample.v[j]))])

NoNormalize ==
    [built |-> FALSE, momentum |-> R(0), running_mean |-> None, running_var |-> None,
     sample_mean |-> None, sample_var |-> None, x_cache |-> None,
     trained |-> 0, call |-> "none"]

\* Normalize.__init__: the statistics start as None
NormalizeNew(momentum) ==
    [NoNormalize EXCEPT !.built = TRUE, !.momentum = momentum, !.call = "__init__"]

\* a forward call that smooths the running statistics in every mode
NormalizeActivate_AlwaysSmooths(o, x, predict) ==
    LET lazy == IF o.running_mean = None \/ o.running_var = None
                THEN [o EXCEPT !.running_mean = Some(Zeros(Len(x[1]))),
                               !.running_var = Some(Zeros(Len(x[1])))]
                ELSE o
    IN  [lazy EXCEPT
            !.sample_mean = Some(Mean(x)),
            !.sample_var = Some(Var(x)),
            !.x_cache = Some(x),
            !.running_mean = Some(Smooth(o.momentum, lazy.running_mean[1], Mean(x))),
            !.running_var = Some(Smooth(o.momentum, lazy.running_var[1], Var(x))),
            !.call = IF predict THEN "activate_predict" ELSE "activate_train"]

\* Normalize._activate(x, predict): the fields it stores
NormalizeActivate(o, x, predict) ==
    LET lazy == IF o.running_mean = None \/ o.running_var = None
                THEN [o EXCEPT !.running_mean = Some(Zeros(Len(x[1]))),
                               !.running_var = Some(Zeros(Len(x[1])))]
                ELSE o
    IN  IF ~predict
        THEN [lazy EXCEPT
                !.sample_mean = Some(Mean(x)),
                !.sample_var = Some(Var(x)),
                !.x_cache = Some(x),
                !.running_mean = Some(Smooth(o.momentum, lazy.running_mean[1], Mean(x))),
                !.running_var = Some(Smooth(o.momentum, lazy.running_var[1], Var(x))),
                !.trained = o.trained + 1,
                !.call = "activate_train"]
        ELSE [lazy EXCEPT !.call = "activate_predict"]

\* Layer.set_special_params(dic): setattr for every key of dic
set_special_params(o, dic) ==
    [o EXCEPT
        !.running_mean = IF "running_mean" \in DOMAIN dic THEN dic.running_mean ELSE @,
        !.running_var = IF "running_var" \in DOMAIN dic THEN dic.running_var ELSE @,
        !.call = "set_special_params"]

\* momenta tried: 0.9 (the default) and 0.5
Momenta == {Rat(9, 10), Rat(1, 2)}

\* batches tried: one and two samples of NormFeatures features
NormRows == { [j \in 1..NormFeatures |-> R(IF j = 1 THEN a ELSE j)] : a \in {0, 2} }
NormBatches == { <<r>> : r \in NormRows } \cup { <<r, q>> : r \in NormRows, q \in NormRows }

\* dictionaries tried for set_special_params: statistics saved from another
\* object, cleared statistics, and a single cleared statistic
SpecialParams ==
    { [running_mean |-> Some(Vec(2, [j \in 1..NormFeatures |-> R(1)])),
       running_var |-> Some(Vec(2, [j \in 1..NormFeatures |-> R(1)]))],
      [running_mean |-> None, running_var |-> None],
      [running_var |-> None] }

OtherNormVars == <<layer, nodes, ret, bpres, batch_range, cost, pool>>

\* Normalize(parent, shape, momentum=momentum)
NewNormalize ==
    /\ \E momentum \in Momenta : norm' = NormalizeNew(momentum)
    /\ UNCHANGED OtherNormVars

\* normalize.activate(x, w, bias, predict) -> _activate(x, predict)
NormActivate ==
    /\ norm.built
    /\ \E x \in NormBatches, predict \in BOOLEAN :
        /\ predict \/ norm.trained < MaxTrain
        /\ norm' = NormalizeActivate(norm, x, predict)
    /\ UNCHANGED OtherNormVars

\* normalize.set_special_params(dic)
SetSpecialParams ==
    /\ norm.built
    /\ \E dic \in SpecialParams : norm' = set_special_params(norm, dic)
    /\ UNCHANGED OtherNormVars

(***************************************************************************)
(* CostLayer: the selected cost function.  cost.chain holds a root layer   *)
(* and the CostLayer built on it (chain[CostNode]); a cost_name of ""      *)
(* stands for an attribute __init__ never assigned.                        *)
(***************************************************************************)
CostNode == 2

NoCost ==
    [chain |-> <<>>, call |-> "none", value |-> "", func |-> "", err |-> "none",
     y |-> <<>>, y_pred |-> <<>>, val |-> <<>>]

\* a setter that stores the name before it tests it
cost_function_setter_StoresFirst(ns, n, value) ==
    IF value \notin DOMAIN AvailableCostFunctions
    THEN [nodes |-> [ns EXCEPT ![n].cost_name = value], err |-> "LayerError"]
    ELSE [nodes |-> [ns EXCEPT ![n].cost_name = value,
                               ![n].cost_function = AvailableCostFunctions[value]],
          err |-> "none"]

\* CostLayer.cost_function = value (the property setter) on node n
cost_function_setter(ns, n, value) ==
    IF value \notin DOMAIN AvailableCostFunctions
    THEN [nodes |-> ns, err |-> "LayerError"]
    ELSE [nodes |-> [ns EXCEPT ![n].cost_name = value,
                               ![n].cost_function = AvailableCostFunctions[value]],
          err |-> "none"]

\* a set_cost_function_derivative that stores the function and keeps the name
set_cost_function_derivative_KeepsName(ns, n, func, name) ==
    [ns EXCEPT ![n].cost_function = func]

\* CostLayer.set_cost_function_derivative(func, name) on node n
set_cost_function_derivative(ns, n, func, name) ==
    [ns EXCEPT ![n].cost_name = IF name = None THEN "Custom Cost Function" ELSE name[1],
               ![n].cost_function = func]

\* root layers the cost layer is built on
CostRoots == {"Sigmoid", "Tanh"}

\* values assigned to cost_function: the four known names and three others
SetterValues == available_cost_functions \cup {"Hinge", "mse", "Custom Cost Function"}

\* names given to set_cost_function_derivative
DerivativeNames == {None, Some("MSE"), Some("Huber")}

\* the sum of all entries of an array
Total(a) == RSum([i \in 1..Len(a) |-> RSum(a[i])])

\* (y - y_pred) ** 2, elementwise
SquaredError(y, y_pred) == Times(Minus(y, y_pred), Minus(y, y_pred))

\* self._cost_function(y, y_pred, False) for the function called fn: the
\* loss value.  A value that needs a logarithm is left as an expression:
\* its name and the arrays it is taken of.
CostValue(fn, br, y, y_pred) ==
    CASE fn = "_mse" ->
            [err |-> "none", batch_range |-> br,
             val |-> RMul(Rat(1, 2), RDiv(Total(SquaredError(y, y_pred)),
                                          R(Len(y) * Len(y[1]))))]
      [] fn = "_svm" ->
            LET cls(i) == ArgMax(y[i])
                margin(i, j) ==
                    LET m == RAdd(RSub(y_pred[i][j], y_pred[i][cls(i)]), R(1))
                    IN  IF j = cls(i) \/ RLt(m, R(0)) THEN R(0) ELSE m
            IN  [err |-> "none", batch_range |-> br,
                 val |-> RDiv(Total([i \in 1..Len(y_pred) |->
                                [j \in 1..Len(y_pred[i]) |-> margin(i, j)]]),
                              R(Len(y_pred)))]
      [] fn = "_cross_entropy" ->
            [err |-> "none", batch_range |-> br,
             val |-> <<"average(-y * log(y_pred) - (1 - y) * log(1 - y_pred))", y, y_pred>>]
      [] fn = "_log_likelihood" ->
            [err |-> "none",
             batch_range |-> IF br = None THEN ARange(Len(y_pred)) ELSE br,
             val |-> <<"sum(-log(p + eps)) / n",
                       [i \in 1..Len(y_pred) |-> y_pred[i][ArgMax(y[i])]], Len(y)>>]
      [] fn = CustomDerivative ->
            [err |-> "none", batch_range |-> br, val |-> Total(SquaredError(y, y_pred))]

\* CostLayer.calculate(y, y_pred) of node n
calculate(ns, n, br, y, y_pred) ==
    IF ns[n].cost_function = ""
    THEN [err |-> "AttributeError", val |-> <<>>, batch_range |-> br]
    ELSE CostValue(ns[n].cost_function, br, y, y_pred)

OtherCostVars == <<layer, nodes, ret, bpres, norm, pool>>

\* CostLayer(Layer((2, 2)), (2, 2), cost_function): when the name is
\* unknown the constructor raises, and the object stays the root's child
NewCost ==
    /\ \E cls \in CostRoots, cost_function \in CostNames :
        LET r == CostLayerInit(LayerInit(<<>>, cls, <<2, 2>>), 1, <<2, 2>>, cost_function)
        IN  cost' = [NoCost EXCEPT !.chain = r.nodes, !.call = "__init__",
                                   !.value = cost_function, !.err = r.err]
    /\ UNCHANGED batch_range
    /\ UNCHANGED OtherCostVars

\* cost_layer.cost_function = value
SetCostFunction ==
    /\ cost.chain # <<>>
    /\ \E value \in SetterValues :
        LET r == cost_function_setter(cost.chain, CostNode, value)
        IN  cost' = [NoCost EXCEPT !.chain = r.nodes, !.call = "cost_function.setter",
                                   !.value = value, !.err = r.err]
    /\ UNCHANGED batch_range
    /\ UNCHANGED OtherCostVars

\* cost_layer.set_cost_function_derivative(func, name)
SetCostFunctionDerivative ==
    /\ cost.chain # <<>>
    /\ \E name \in DerivativeNames :
        cost' = [NoCost EXCEPT
                    !.chain = set_cost_function_derivative(cost.chain, CostNode,
                                                           CustomDerivative, name),
                    !.call = "set_cost_function_derivative",
                    !.value = IF name = None THEN "" ELSE name[1],
                    !.func = CustomDerivative]
    /\ UNCHANGED batch_range
    /\ UNCHANGED OtherCostVars

\* cost_layer.root = cost_layer.root
SetCostRoot ==
    /\ cost.chain # <<>>
    /\ cost' = [NoCost EXCEPT
                    !.chain = [cost.chain EXCEPT
                                ![CostNode]._root = root(cost.chain, CostNode)],
                    !.call = "root.setter"]
    /\ UNCHANGED batch_range
    /\ UNCHANGED OtherCostVars

\* cost_layer.bp_first(y, y_pred)
CostBpFirst ==
    /\ cost.chain # <<>>
    /\ \E in \in CostInputs :
        LET r == bp_first(cost.chain, CostNode, batch_range, in[1], in[2])
        IN  /\ cost' = [NoCost EXCEPT !.chain = cost.chain, !.call = "bp_first",
                                      !.y = in[1], !.y_pred = in[2],
                                      !.err = r.err, !.val = r.val]
            /\ batch_range' = r.batch_range
    /\ UNCHANGED OtherCostVars

\* cost_layer.calculate(y, y_pred)
CostCalculate ==
    /\ cost.chain # <<>>
    /\ \E in \in CostInputs :
        LET r == calculate(cost.chain, CostNode, batch_range, in[1], in[2])
        IN  /\ cost' = [NoCost EXCEPT !.chain = cost.chain, !.call = "calculate",
                                      !.y = in[1], !.y_pred = in[2],
                                      !.err = r.err, !.val = r.val]
            /\ batch_range' = r.batch_range
    /\ UNCHANGED OtherCostVars

(***************************************************************************)
(* MaxPool.  The arrays hold one sample and one channel, so an array of    *)
(* shape (1, 1, h, w) is given by its plane: a sequence of h rows of w     *)
(* integers.  A gradient plane holds rationals (the fast path divides).    *)
(* pool.layer is the ConvPoolLayer part of the object, pool.out the array  *)
(* the last forward call returned, pool.dx the array the last backward     *)
(* call returned.                                                          *)
(***************************************************************************)
NoPoolCache == [method |-> None, x_reshaped |-> None]

NoPool ==
    [layer |-> NoLayer, x_cache |-> None, _pool_cache |-> NoPoolCache,
     call |-> "none", err |-> "none", out |-> None,
     y |-> None, delta |-> None, dx |-> None]

SetMax(S) == CHOOSE m \in S : \A n \in S : n <= m
Least(a, b) == IF a < b THEN a ELSE b

\* the rows (or columns) of the slice k*sd : size + k*sd of an axis of
\* length len, for the window index k counted from 1
Slice(k, sd, size, len) == ((k - 1) * sd + 1) .. Least(size + (k - 1) * sd, len)

\* np.max over the rows and columns given
WindowMax(x, rows, cols) == SetMax({ x[i][j] : i \in rows, j \in cols })

\* a reshape whose tiles start at every row and column instead of at
\* every pool_height-th row and pool_width-th column
ReshapeMax_Overlapping(x, pool_height, pool_width) ==
    [k \in 1..IntOfQuotient(Len(x), pool_height) |->
        [l \in 1..IntOfQuotient(Len(x[1]), pool_width) |->
            WindowMax(x, Slice(k, 1, pool_height, Len(x)),
                         Slice(l, 1, pool_width, Len(x[1])))]]

\* x.reshape(n, c, height / pool_height, pool_height, width / pool_width,
\* pool_width).max(axis=3).max(axis=4): the maximum of every tile
ReshapeMax(x, pool_height, pool_width) ==
    [k \in 1..IntOfQuotient(Len(x), pool_height) |->
        [l \in 1..IntOfQuotient(Len(x[1]), pool_width) |->
            WindowMax(x, Slice(k, pool_height, pool_height, Len(x)),
                         Slice(l, pool_width, pool_width, Len(x[1])))]]

\* the loop of the fallback branch of _activate: out_h x out_w windows of
\* pool_height x pool_width, sd apart
WindowLoop(x, out_h, out_w, pool_height, pool_width, sd) ==
    [k \in 1..out_h |-> [l \in 1..out_w |->
        WindowMax(x, Slice(k, sd, pool_height, Len(x)),
                     Slice(l, sd, pool_width, Len(x[1])))]]

\* a test that takes the fast path whatever the stride
FastPath_AnyStride(x, pool_height, pool_width, sd) ==
    /\ pool_height = pool_width
    /\ Len(x) % pool_height = 0 /\ Len(x[1]) % pool_width = 0

\* same_size and tiles, lines 514-516
FastPath(x, pool_height, pool_width, sd) ==
    /\ pool_height = pool_width /\ pool_width = sd
    /\ Len(x) % pool_height = 0 /\ Len(x[1]) % pool_width = 0

\* MaxPool._activate(x) on object o
MaxPoolActivate(o, x) ==
    LET sd == o.layer.stride
        height == Len(x)
        width == Len(x[1])
        pool_height == o.layer.shape[2][1]
        pool_width == o.layer.shape[2][2]
        out_h == o.layer.out_h[1]
        out_w == o.layer.out_w[1]
        cached == [o EXCEPT !.x_cache = Some(x), !.call = "activate",
                            !.y = None, !.delta = None, !.dx = None]
        rows(k) == Slice(k, sd, pool_height, height)
        cols(l) == Slice(l, sd, pool_width, width)
    IN  IF FastPath(x, pool_height, pool_width, sd)
        THEN [cached EXCEPT
                !._pool_cache = [method |-> Some("reshape"), x_reshaped |-> Some(x)],
                !.out = Some(ReshapeMax(x, pool_height, pool_width)),
                !.err = "none"]
        ELSE IF \/ out_h < 0 \/ out_w < 0
                \/ \E k \in 1..out_h, l \in 1..out_w : rows(k) = {} \/ cols(l) = {}
        THEN [cached EXCEPT !.err = "ValueError", !.out = None]
        ELSE [cached EXCEPT
                !._pool_cache.method = Some("original"),
                !.out = Some(WindowLoop(x, out_h, out_w, pool_height, pool_width, sd)),
                !.err = "none"]

\* the loop of the "original" branch of _derivative from window number q
\* on: every window overwrites its region of dx
RECURSIVE RouteWindows(_, _, _, _)
RouteWindows(o, delta, dx, q) ==
    LET x == o.x_cache[1]
        sd == o.layer.stride
        out_w == o.layer.out_w[1]
        k == ((q - 1) \div out_w) + 1
        l == ((q - 1) % out_w) + 1
        rows == Slice(k, sd, o.layer.shape[2][1], Len(x))
        cols == Slice(l, sd, o.layer.shape[2][2], Len(x[1]))
        top == WindowMax(x, rows, cols)
    IN  IF o.layer.out_h[1] <= 0 \/ out_w <= 0 \/ q > o.layer.out_h[1] * out_w THEN dx
        ELSE RouteWindows(o, delta,
                [i \in 1..Len(x) |-> [j \in 1..Len(x[1]) |->
                    IF i \in rows /\ j \in cols
                    THEN (IF x[i][j] = top THEN R(delta[k][l]) ELSE R(0))
                    ELSE dx[i][j]]],
                q + 1)

\* the "reshape" branch of _derivative: the gradient of a block is shared
\* by the entries that equal y's entry for the block
RouteReshaped(o, y, delta) ==
    LET x == o._pool_cache.x_reshaped[1]
        pool_height == o.layer.shape[2][1]
        pool_width == o.layer.shape[2][2]
        bk(i) == ((i - 1) \div pool_height) + 1
        bl(j) == ((j - 1) \div pool_width) + 1
        mask(i, j) == x[i][j] = y[bk(i)][bl(j)]
        count(k, l) ==
            Cardinality({ c \in (1..Len(x)) \X (1..Len(x[1])) :
                            bk(c[1]) = k /\ bl(c[2]) = l /\ mask(c[1], c[2]) })
    IN  [i \in 1..Len(x) |-> [j \in 1..Len(x[1]) |->
            IF mask(i, j) THEN Rat(delta[bk(i)][bl(j)], count(bk(i), bl(j)))
            ELSE R(0)]]

\* MaxPool._derivative(y, w, prev_delta) with is_fc_base False, on object o
MaxPoolDerivative(o, y, delta) ==
    LET called == [o EXCEPT !.call = "bp", !.y = Some(y), !.delta = Some(delta)]
        method == o._pool_cache.method
    IN  IF method = None
        THEN [called EXCEPT !.err = "KeyError", !.dx = None]
        ELSE IF method = Some("reshape")
        THEN [called EXCEPT !.err = "none", !.dx = Some(RouteReshaped(o, y, delta))]
        ELSE IF method = Some("original")
        THEN [called EXCEPT !.err = "none",
                !.dx = Some(RouteWindows(o, delta,
                            [i \in 1..Len(o.x_cache[1]) |->
                                [j \in 1..Len(o.x_cache[1][1]) |-> R(0)]], 1))]
        ELSE [called EXCEPT !.err = "LayerError", !.dx = None]

\* planes tried as x: the entries (a*i + b*j) % 3, constant for a = b = 0,
\* and two planes whose entries all differ, rising and falling
PoolInputs(h, w) ==
    { [i \in 1..h |-> [j \in 1..w |-> (a * i + b * j) % 3]] : a \in 0..2, b \in 0..2 }
    \cup { [i \in 1..h |-> [j \in 1..w |-> c * ((i - 1) * w + j)]] : c \in {-1, 1} }

\* planes tried as prev_delta: all ones, and the entries 1, 2, 3, ...
PoolDeltas(h, w) ==
    { [k \in 1..h |-> [l \in 1..w |-> 1 + b * ((k - 1) * w + l - 1)]] : b \in 0..1 }

\* shapes, strides and paddings a MaxPool is built with
MaxPlane == 4        \* input planes have up to MaxPlane rows and columns
MaxWindow == 3       \* pool windows have up to MaxWindow rows and columns
MaxPoolStride == 2   \* strides run from 1 to MaxPoolStride
MaxPoolShapes ==
    { <<<<1, h, w>>, <<ph, pw>>>> :
        h \in 1..MaxPlane, w \in 1..MaxPlane, ph \in 1..MaxWindow, pw \in 1..MaxWindow }

OtherPoolVars == <<layer, nodes, ret, bpres, batch_range, norm, cost>>

\* MaxPool(shape, stride, padding): the object is constructed once; a
\* constructor that raised leaves no object
NewMaxPool ==
    /\ pool.call = "none"
    /\ \E shape \in MaxPoolShapes, stride \in 1..MaxPoolStride, padding \in 0..MaxPadding :
        LET o == ConvInit("ConvPoolLayer", shape, stride, padding)
        IN  pool' = [NoPool EXCEPT !.layer = o, !.call = "__init__", !.err = o.err]
    /\ UNCHANGED OtherPoolVars

\* pool.activate(x, w, bias, predict) -> _activate(x, w, bias, predict),
\* for x of the shape the object was built for
PoolActivate ==
    /\ pool.layer.built
    /\ \E x \in PoolInputs(pool.layer.shape[1][2], pool.layer.shape[1][3]) :
        pool' = MaxPoolActivate(pool, x)
    /\ UNCHANGED OtherPoolVars

\* pool.bp(y, w, prev_delta) -> _derivative(y, w, prev_delta); y is what
\* the last forward call returned, and any plane if none has returned
PoolBp ==
    /\ pool.layer.built
    /\ LET rows == IF pool.out # None THEN Len(pool.out[1])
                   ELSE IF pool.layer.out_h[1] > 0 THEN pool.layer.out_h[1] ELSE 0
           cols == IF pool.out # None /\ pool.out[1] # <<>> THEN Len(pool.out[1][1])
                   ELSE IF pool.layer.out_w[1] > 0 THEN pool.layer.out_w[1] ELSE 0
       IN  \E y \in (IF pool.out # None THEN {pool.out[1]} ELSE PoolInputs(rows, cols)),
              delta \in PoolDeltas(rows, cols) :
                pool' = MaxPoolDerivative(pool, y, delta)
    /\ UNCHANGED OtherPoolVars

(***************************************************************************)
(* The initial state: nothing has been constructed.                        *)
(***************************************************************************)
Init ==
    /\ layer = NoLayer
    /\ nodes = <<>>
    /\ ret = [op |-> "none", name |-> "", parent |-> 0, args |-> <<>>,
              current_dimension |-> 0, node |-> 0, pair |-> None, err |-> "none"]
    /\ bpres = NoCall
    /\ batch_range = None
    /\ norm = NoNormalize
    /\ cost = NoCost
    /\ pool = NoPool

NextShape == Construct \/ FeedShape

SpecShape == Init /\ [][NextShape]_vars

NextChain == GetLayerByName \/ NewLayer \/ NewDropout \/ NewCostLayer

SpecChain == Init /\ [][NextChain]_vars

NextBp ==
    NewExactLayer \/ NewExactDropout \/ NewKnownCostLayer \/ SetRoot \/ Bp \/ BpFirst

SpecBp == Init /\ [][NextBp]_vars

NextNorm == NewNormalize \/ NormActivate \/ SetSpecialParams

SpecNorm == Init /\ [][NextNorm]_vars

NextCost ==
    \/ NewCost \/ SetCostFunction \/ SetCostFunctionDerivative \/ SetCostRoot
    \/ CostBpFirst \/ CostCalculate

SpecCost == Init /\ [][NextCost]_vars

NextPool == NewMaxPool \/ PoolActivate \/ PoolBp

SpecPool == Init /\ [][NextPool]_vars

(***************************************************************************)
(* Claims about the shape validation.                                      *)
(***************************************************************************)
Height == layer.shape[1][2]
Width == layer.shape[1][3]
KernelH == IF layer.cls = "ConvLayer" THEN layer.shape[2][2] ELSE layer.shape[2][1]
KernelW == IF layer.cls = "ConvLayer" THEN layer.shape[2][3] ELSE layer.shape[2][2]

\* C1: a ConvLayer given input (c, H, W), kernel (f, kh, kw), stride s and
\* padding p is rejected with a BuildLayerError exactly when
\* (H + 2p - kh) mod s # 0 or (W + 2p - kw) mod s # 0.
C1_RejectedExactlyWhenRemainder ==
    (layer.cls = "ConvLayer" /\ layer.shape # <<>>) =>
        ((layer.err = "BuildLayerError") <=>
            \/ (Height + 2 * layer.padding - KernelH) % layer.stride # 0
            \/ (Width + 2 * layer.padding - KernelW) % layer.stride # 0)

\* C2: every accepted layer has out_h = floor((H + 2p - kh)/s) + 1 and
\* out_w = floor((W + 2p - kw)/s) + 1, with p = 0 for a pooling layer
\* whatever its padding.
C2_OutputSizeIsFloorFormula ==
    (layer.cls \in ConvClasses /\ layer.shape # <<>> /\ layer.err = "none") =>
        LET p == IF layer.cls = "ConvLayer" THEN layer.padding ELSE 0
        IN  /\ layer.out_h = Some(((Height + 2 * p - KernelH) \div layer.stride) + 1)
            /\ layer.out_w = Some(((Width + 2 * p - KernelW) \div layer.stride) + 1)

(***************************************************************************)
(* Claims about the chain and the factory.                                 *)
(***************************************************************************)
SubLayersOf(n) == { m \in 1..Len(nodes) : nodes[m].parent = n }
Newest(S) == CHOOSE m \in S : \A k \in S : k <= m

\* C3 (as stated): once a node's child is set it never changes again.
C3_ChildNeverChangesOnceSet ==
    [][\A n \in 1..Len(nodes) :
        nodes[n].child # 0 => nodes'[n].child = nodes[n].child]_vars

\* C3 (amended): a node's parent never changes; its child changes only when
\* a sub-layer is constructed with that node as parent, and then becomes
\* that new sub-layer, replacing any earlier child: at every moment the
\* child of a node is the sub-layer most recently constructed on it (None
\* if there is none).
C3_ChildIsNewestSubLayer ==
    /\ [](\A n \in 1..Len(nodes) :
            nodes[n].child = IF SubLayersOf(n) = {} THEN 0 ELSE Newest(SubLayersOf(n)))
    /\ [][\A n \in 1..Len(nodes) :
            /\ nodes'[n].parent = nodes[n].parent
            /\ nodes'[n].child # nodes[n].child =>
                /\ Len(nodes') = Len(nodes) + 1
                /\ nodes'[n].child = Len(nodes')
                /\ nodes'[Len(nodes')].parent = n]_vars

\* a second sub-layer has been constructed on a node and has replaced the first
C3_Witness ==
    \E n \in 1..Len(nodes) :
        /\ Cardinality(SubLayersOf(n)) >= 2
        /\ nodes[n].child = Newest(SubLayersOf(n))

\* C5 (as stated): get_layer_by_name returns, for every recognized name, a
\* node together with a pair that is never absent.
C5_PairNeverAbsent ==
    (ret.op = "get_layer_by_name" /\ ret.node # 0) => ret.pair # None

\* C5 (amended): a successful get_layer_by_name returns the newly
\* constructed node; for a sub-layer or cost name the second component is
\* (parent.shape[1], current_dimension), which is also the node's shape;
\* for a root layer name the second component is None.
C5_PairForSubLayersNoneForRoots ==
    (ret.op = "get_layer_by_name" /\ ret.err = "none") =>
        /\ ret.node = Len(nodes)
        /\ nodes[ret.node].built
        /\ ret.name \in available_root_layers \cup available_sub_layers
        /\ IF ret.name \in available_root_layers
           THEN ret.pair = None /\ nodes[ret.node].parent = 0
           ELSE /\ ret.pair = Some(<<nodes[ret.parent].shape[2], ret.current_dimension>>)
                /\ nodes[ret.node].shape = ret.pair[1]
                /\ nodes[ret.node].parent = ret.parent

\* the factory has built a cost layer on a sub-layer and returned its sizes
C5_Witness ==
    /\ ret.op = "get_layer_by_name"
    /\ ret.name \in available_cost_functions
    /\ ret.node = 3
    /\ nodes[ret.parent].parent # 0
    /\ ret.pair = Some(<<3, 4>>)

\* the probability a Dropout construction was given
DropProb == IF ret.args = <<>> THEN Rat(1, 2) ELSE ret.args[1]

\* C6: constructing a Dropout with probability p raises BuildLayerError
\* exactly when p < 0 or p >= 1; otherwise it succeeds and the keep-scale
\* times (1 - p) is 1.
C6_DropoutRejectedExactlyOutsideUnitInterval ==
    (ret.name = "Dropout" /\ ret.op \in {"Dropout", "get_layer_by_name"}) =>
        /\ ret.err \in {"none", "BuildLayerError"}
        /\ (ret.err = "BuildLayerError") <=> (DropProb[1] < 0 \/ DropProb[1] >= DropProb[2])
        /\ ret.err = "none" =>
            /\ nodes[ret.node].prob = Some(DropProb)
            /\ nodes[ret.node].prob_inv # None
            /\ RMul(nodes[ret.node].prob_inv[1], RSub(R(1), DropProb)) = R(1)

\* a Dropout with probability 0 has been constructed, with keep-scale 1
C6_Witness ==
    /\ ret.op = "Dropout"
    /\ ret.args = <<R(0)>>
    /\ ret.err = "none"
    /\ nodes[ret.node].prob_inv = Some(R(1))

(***************************************************************************)
(* Claims about backward calls.                                            *)
(***************************************************************************)
\* C4: for every sub-layer node, with or without a sub-layer child,
\* bp(y, w, prev_delta) returns derivative(y, prev_delta . w^T * R.derivative(y))
\* with R the ancestor reached by walking parent links, right after
\* construction and with no step that stores the root on the sub-layer.
C4_SubLayerBpUsesWalkedRoot ==
    (bpres.op = "bp" /\ IsSubLayer(nodes[bpres.node])) =>
        LET n == bpres.node
            rd == Derivative(nodes, root(nodes, n), bpres.y, <<>>)
            expected == Derivative(nodes, n, bpres.y,
                                   Times(DotT(bpres.prev_delta, bpres.w), rd.val))
        IN  bpres.err = expected.err /\ bpres.val = expected.val

\* the raw Log Likelihood gradient: y_pred with 1 subtracted at the true
\* class of every sample
RawLogLikelihoodGradient(y, y_pred) ==
    [i \in 1..Len(y_pred) |-> [j \in 1..Len(y_pred[i]) |->
        IF j = ArgMax(y[i]) THEN RSub(y_pred[i][j], R(1)) ELSE y_pred[i][j]]]

\* C9: bp_first(y, y_pred) on a cost layer whose root R is found by walking
\* parent links returns y(1 - y_pred) - (1 - y)y_pred when R is a Sigmoid
\* and the loss is Cross Entropy, the raw loss gradient divided by 4 when
\* the loss is Log Likelihood, and -loss_gradient(y, y_pred) *
\* R.derivative(y_pred) otherwise.
C9_BpFirstByWalkedRoot ==
    (bpres.op = "bp_first") =>
        LET n == bpres.node
            y == bpres.y
            y_pred == bpres.w
            top == root(nodes, n)
            loss == nodes[n].cost_name
            fn == AvailableCostFunctions[loss]
            expected ==
                IF nodes[top].cls = "Sigmoid" /\ loss = "Cross Entropy"
                THEN Minus(Times(y, From(R(1), y_pred)), Times(From(R(1), y), y_pred))
                ELSE IF loss = "Log Likelihood"
                THEN Scale(Rat(1, 4), RawLogLikelihoodGradient(y, y_pred))
                ELSE Times(Negate(CostGradient(fn, None, y, y_pred).val),
                           Derivative(nodes, top, y_pred, <<>>).val)
        IN  bpres.err = "none" /\ bpres.val = expected

(***************************************************************************)
(* Claims about Normalize.                                                 *)
(***************************************************************************)
\* C7 (as stated): in every reachable state, also right after construction,
\* a forward call with predict=True leaves running_mean and running_var
\* exactly as they were.
C7_PredictLeavesRunningStats ==
    [][norm'.call = "activate_predict" =>
        /\ norm'.running_mean = norm.running_mean
        /\ norm'.running_var = norm.running_var]_vars

\* C7 (amended): a forward call with predict=True never smooths the running
\* statistics: it leaves running_mean and running_var exactly as they were
\* when both are set, and when either is still None (as right after
\* construction) it sets both to zero vectors of the input's feature count.
C7_PredictOnlyInitialisesRunningStats ==
    [][norm'.call = "activate_predict" =>
        IF norm.running_mean = None \/ norm.running_var = None
        THEN /\ norm'.running_mean = Some(Zeros(NormFeatures))
             /\ norm'.running_var = Some(Zeros(NormFeatures))
        ELSE /\ norm'.running_mean = norm.running_mean
             /\ norm'.running_var = norm.running_var]_vars

\* a predict-mode forward call has run on statistics that training had
\* moved away from zero, and has kept them
C7_Witness ==
    /\ norm.call = "activate_predict"
    /\ norm.trained > 0
    /\ norm.running_mean # None
    /\ norm.running_mean # Some(Zeros(NormFeatures))
    /\ norm.running_mean[1].v[2] # R(0)

(***************************************************************************)
(* Claims about CostLayer.                                                 *)
(***************************************************************************)
\* C8: assigning cost_function a name outside "MSE", "SVM", "Cross Entropy",
\* "Log Likelihood" raises LayerError and leaves the selected name and the
\* selected function as they were; assigning one of the four names selects
\* that name together with the function _available_cost_functions gives it.
C8_SetterRejectsUnknownNames ==
    [][cost'.call = "cost_function.setter" =>
        LET before == cost.chain[CostNode]
            after == cost'.chain[CostNode]
        IN  IF cost'.value \in {"MSE", "SVM", "Cross Entropy", "Log Likelihood"}
            THEN /\ cost'.err = "none"
                 /\ after.cost_name = cost'.value
                 /\ after.cost_function =
                        (CASE cost'.value = "MSE" -> "_mse"
                           [] cost'.value = "SVM" -> "_svm"
                           [] cost'.value = "Cross Entropy" -> "_cross_entropy"
                           [] cost'.value = "Log Likelihood" -> "_log_likelihood")
            ELSE /\ cost'.err = "LayerError"
                 /\ after.cost_name = before.cost_name
                 /\ after.cost_function = before.cost_function]_vars

\* an unknown name has been refused on a cost layer that had a custom
\* function selected, and the custom selection is still in place
C8_Witness ==
    /\ cost.call = "cost_function.setter"
    /\ cost.err = "LayerError"
    /\ cost.value = "Custom Cost Function"
    /\ cost.chain[CostNode].cost_name = "Custom Cost Function"
    /\ cost.chain[CostNode].cost_function = CustomDerivative

(***************************************************************************)
(* Claims about MaxPool.                                                   *)
(***************************************************************************)
\* C10: bp on a MaxPool on which no forward call has recorded a path
\* (neither "reshape" nor "original"), such as a freshly constructed one,
\* raises LayerError and no other kind of failure.
C10_BpWithoutPathRaisesLayerError ==
    (pool.call = "bp" /\ pool._pool_cache.method = None) => pool.err = "LayerError"

\* C11: whenever a forward call takes the fast path (square window equal
\* to the stride, tiling the input exactly), the output it returns equals,
\* cell for cell, what the fallback loop computes on the same input, window
\* and stride: cell (k, l), counted from 0, is the maximum of the input rows
\* k*s..k*s+ph-1 and columns l*s..l*s+pw-1.
C11_FastPathEqualsFallback ==
    (pool.call = "activate" /\ pool._pool_cache.method = Some("reshape")) =>
        LET x == pool.x_cache[1]
            s == pool.layer.stride
            ph == pool.layer.shape[2][1]
            pw == pool.layer.shape[2][2]
            out == pool.out[1]
        IN  /\ ph = pw /\ pw = s /\ Len(x) % ph = 0 /\ Len(x[1]) % pw = 0
            /\ out = WindowLoop(x, pool.layer.out_h[1], pool.layer.out_w[1], ph, pw, s)
            /\ Len(out) * ph = Len(x)
            /\ \A k \in 0..(Len(out) - 1) :
                /\ Len(out[k + 1]) * pw = Len(x[1])
                /\ \A l \in 0..(Len(out[k + 1]) - 1) :
                    LET cells == { x[i + 1][j + 1] :
                                    i \in (k * s)..(k * s + ph - 1),
                                    j \in (l * s)..(l * s + pw - 1) }
                    IN  /\ out[k + 1][l + 1] \in cells
                        /\ \A c \in cells : c <= out[k + 1][l + 1]

\* a fast-path forward call has returned four maxima, not all equal, for
\* 2 x 2 windows tiling a 4 x 4 input
C11_Witness ==
    /\ pool.call = "activate"
    /\ pool._pool_cache.method = Some("reshape")
    /\ pool.layer.shape = <<<<1, 4, 4>>, <<2, 2>>>>
    /\ Len(pool.out[1]) = 2
    /\ pool.out[1][1][1] # pool.out[1][2][2]

\* the windows of the path the last forward call took, as index pairs
\* <<k, l>> counted from 1, and the rows and columns of a window
PoolWindows ==
    { c \in (1..Len(pool.out[1])) \X (1..pool.layer.out_w[1]) :
        c[2] <= Len(pool.out[1][c[1]]) }
WindowRows(k) ==
    Slice(k, pool.layer.stride, pool.layer.shape[2][1], Len(pool.x_cache[1]))
WindowCols(l) ==
    Slice(l, pool.layer.stride, pool.layer.shape[2][2], Len(pool.x_cache[1][1]))

\* the positions of window c that hold its maximum
MaxPositions(c) ==
    { q \in WindowRows(c[1]) \X WindowCols(c[2]) :
        pool.x_cache[1][q[1]][q[2]] = pool.out[1][c[1]][c[2]] }

NoTiedMaxima == \A c \in PoolWindows : Cardinality(MaxPositions(c)) = 1

RECURSIVE SumDeltas(_, _)
SumDeltas(delta, W) ==
    IF W = {} THEN 0
    ELSE LET c == CHOOSE d \in W : TRUE
         IN  delta[c[1]][c[2]] + SumDeltas(delta, W \ {c})

\* C12: after a backward call that follows a forward call on the same
\* input, on either path and for every accepted window and stride, if no
\* window holds tied maxima then every window's upstream delta arrives at
\* the window's maximum position and nowhere else, and no other window's
\* contribution removes it: each input position receives the sum of the
\* deltas of the windows whose maximum it holds.
C12_GradientReachesEveryWindowMaximum ==
    (pool.call = "bp" /\ pool.err = "none" /\ NoTiedMaxima) =>
        \A i \in 1..Len(pool.x_cache[1]), j \in 1..Len(pool.x_cache[1][1]) :
            pool.dx[1][i][j] =
                R(SumDeltas(pool.delta[1],
                            { c \in PoolWindows : <<i, j>> \in MaxPositions(c) }))

\* the selection of the cost layer: its name and its function
Selected(c) == <<c.chain[CostNode].cost_name, c.chain[CostNode].cost_function>>

\* the four names, each with the function registered under it
RegisteredPairs ==
    { <<"MSE", "_mse">>, <<"SVM", "_svm">>, <<"Cross Entropy", "_cross_entropy">>,
      <<"Log Likelihood", "_log_likelihood">> }

\* C13 (as stated): after any sequence of construction, cost_function
\* assignments, set_cost_function_derivative, bp_first and calculate, the
\* selected name is one of "MSE", "SVM", "Cross Entropy", "Log Likelihood"
\* and the selected function is the one registered under that name.
C13_SelectionAlwaysRegistered ==
    (cost.chain # <<>> /\ cost.chain[CostNode].built) => Selected(cost) \in RegisteredPairs

\* C13 (amended): a constructed cost layer selects one of the four names
\* with its registered function after construction and after every
\* successful cost_function assignment; set_cost_function_derivative(func,
\* name) selects func under the given name ("Custom Cost Function" when
\* none is given), which need not be one of the four; failing assignments,
\* bp_first, calculate and the root setter leave the selection as it was.
C13_SelectionChangesOnlyByAssignment ==
    /\ []((cost.chain # <<>> /\ cost.chain[CostNode].built) =>
            \/ Selected(cost) \in RegisteredPairs
            \/ /\ Selected(cost)[2] = CustomDerivative
               /\ Selected(cost)[1] \in {"Custom Cost Function", "MSE", "Huber"})
    /\ [][(cost.chain # <<>> /\ cost'.chain[CostNode].built) =>
            CASE cost'.call = "__init__" -> Selected(cost') \in RegisteredPairs
              [] cost'.call = "cost_function.setter" /\ cost'.err = "none" ->
                    Selected(cost') \in RegisteredPairs /\ Selected(cost')[1] = cost'.value
              [] cost'.call = "set_cost_function_derivative" ->
                    Selected(cost') =
                        <<IF cost'.value = "" THEN "Custom Cost Function" ELSE cost'.value,
                          cost'.func>>
              [] OTHER -> Selected(cost') = Selected(cost)]_vars

\* calculate has run on a cost layer whose selection is a custom function
\* under a name outside the four
C13_Witness ==
    /\ cost.call = "calculate"
    /\ cost.err = "none"
    /\ cost.chain[CostNode].built
    /\ Selected(cost) = <<"Huber", CustomDerivative>>

\* C14: every Log Likelihood gradient call, whatever the batch sizes of the
\* calls before it and whichever cost layer made them, returns y_pred with
\* 1 subtracted at (i, true class of sample i) for every sample i of its
\* own batch and unchanged elsewhere.  The call is observed through
\* bp_first, which returns that array times -1/4.
C14_LogLikelihoodGradientOfOwnBatch ==
    (/\ cost.call = "bp_first"
     /\ cost.chain[CostNode]._root # 0
     /\ Selected(cost) = <<"Log Likelihood", "_log_likelihood">>) =>
        /\ cost.err = "none"
        /\ cost.val = Scale(Rat(-1, 4), RawLogLikelihoodGradient(cost.y, cost.y_pred))

\* the path a forward call on x records when it returns
PathOf(x) ==
    IF /\ pool.layer.shape[2][1] = pool.layer.shape[2][2]
       /\ pool.layer.shape[2][2] = pool.layer.stride
       /\ Len(x) % pool.layer.shape[2][1] = 0
       /\ Len(x[1]) % pool.layer.shape[2][2] = 0
    THEN "reshape" ELSE "original"

C16_FailedConstructionLeavesParent ==
    [][(ret'.op \in {"Dropout", "CostLayer"} /\ ret'.err # "none") =>
        /\ \A n \in 1..Len(nodes) : nodes'[n].child = nodes[n].child
        /\ \A n \in 1..Len(nodes') : nodes'[n].child # 0 => nodes'[nodes'[n].child].built]_vars

=============================================================================
